---- MODULE Spec2Model ----
(***************************************************************************)
(* A model of genbids: the BIDS entity model, its builder and the merge    *)
(* writer (src/src/genbids/bids_model.py, src/src/genbids/bids_writer.py). *)
(*                                                                         *)
(* The file system under the BIDS root is a function from relative paths   *)
(* (strings, built the way the path configuration builds them) to file     *)
(* contents.  A write() call is a sequence of steps, one per block of      *)
(* BidsWriter.write; the builder world is a small heap of list and dict    *)
(* objects, because BidsBuilder and BidsModel hold references to them.     *)
(* I/O failures of the operating system (a missing source file, a full     *)
(* disk) are not modelled; the formatters are the default ones.            *)
(***************************************************************************)
EXTENDS Integers, Sequences, FiniteSets, TLC

VARIABLES
    rootExists,   \* the BIDS root directory exists
    fs,           \* relative path -> content, the files under the root
    pc,           \* position of the writer in write()
    strategy,     \* BidsWriter._entity_merge_strategy
    bids,         \* BidsWriter._bids : NoneObj or Some(model)
    config,       \* BidsWriter._config
    idx,          \* loop position in `for entity in self._bids.entities`
    result,       \* what write() returned or raised
    before,       \* history: fs when write() was entered
    beforeRoot,   \* history: rootExists when write() was entered
    steps,        \* history: the blocks of write() executed so far
    prev,         \* history: the previous write() call (when remembered)
    nWrites,      \* number of write() calls so far
    lists,        \* heap: list object id -> sequence of entities
    dicts,        \* heap: dict object id -> mapping
    builders,     \* sequence of BidsBuilder objects
    models,       \* sequence of BidsModel objects returned by build()
    made,         \* set of BidsEntity objects constructed directly
    lastError,    \* what the last builder-side call raised ("" if nothing)
    described,    \* history: the add_dataset_description calls, in time order
    props,        \* the last read of a Model's properties: NoneObj or Some(read)
    report,       \* the Report.create call: the export directory and its progress
    block         \* the `with BidsWriter(...)` block: the writer and its progress

writerVars == <<rootExists, fs, pc, strategy, bids, config, idx, result,
                before, beforeRoot, steps, prev, nWrites>>
builderVars == <<lists, dicts, builders, models, made, lastError, described,
                 props>>
reportVars == <<report>>
blockVars == <<block>>
vars == <<rootExists, fs, pc, strategy, bids, config, idx, result,
          before, beforeRoot, steps, prev, nWrites,
          lists, dicts, builders, models, made, lastError, described, props,
          report, block>>

---------------------------------------------------------------------------
(* Bounds of the model. *)
MaxWrites == 2
MaxEntities == 2
MaxBuilders == 2
MaxAdds == 2
MaxBuilds == 1
MaxMade == 1
MaxDescribes == 2

---------------------------------------------------------------------------
(* Values. *)

\* Python's None for the string-typed optional fields; str(None) = "None".
None == "None"
\* Optional objects (mappings, tables, models) are <<>> or <<x>>.
NoneObj == <<>>
Some(x) == <<x>>
EmptyMap == [k \in {} |-> ""]

Range(s) == {s[i] : i \in 1..Len(s)}

\* An update in which the value already there wins.
DictUpdate_OldWins(old, new) ==
    [k \in (DOMAIN old) \cup (DOMAIN new) |->
        IF k \in DOMAIN old THEN old[k] ELSE new[k]]

\* dict.update: keys of new win, the other keys keep their value.
DictUpdate(old, new) ==
    [k \in (DOMAIN old) \cup (DOMAIN new) |->
        IF k \in DOMAIN new THEN new[k] ELSE old[k]]

\* "_".join(parts)
RECURSIVE Join(_)
Join(parts) ==
    IF Len(parts) = 0 THEN ""
    ELSE IF Len(parts) = 1 THEN parts[1]
    ELSE parts[1] \o "_" \o Join(Tail(parts))

\* MergeStrategy
UNKNOWN_MERGE == "UNKNOWN_MERGE"
NO_MERGE == "NO_MERGE"
OVERWRITE == "OVERWRITE"
KEEP == "KEEP"
RENAME_ENTITIES == "RENAME_ENTITIES"
NEW_SESSION == "NEW_SESSION"
MergeStrategy ==
    {UNKNOWN_MERGE, NO_MERGE, OVERWRITE, KEEP, RENAME_ENTITIES, NEW_SESSION}

\* BidsEntity: a frozen dataclass, nothing is validated at construction.
BidsEntity(subject_id, datatype, task_name, suffix, session_id, metadata, file_path, tabular_data, run_id) ==
    [subject_id |-> subject_id, datatype |-> datatype,
     task_name |-> task_name, suffix |-> suffix, session_id |-> session_id,
     metadata |-> metadata, file_path |-> file_path,
     tabular_data |-> tabular_data, run_id |-> run_id]

is_file_resource(e) == e.file_path # None
is_tabular_data(e) == e.tabular_data # NoneObj

\* BidsModel: a frozen dataclass over the two containers it is given.
BidsModel(entities, dataset_description) ==
    [entities |-> entities, dataset_description |-> dataset_description]

has_sessions(m) == \E i \in 1..Len(m.entities) :
                       m.entities[i].session_id \notin {None, ""}

\* set([entity.subject_id for entity in self.entities])
SubjectIdSet(m) == {m.entities[i].subject_id : i \in 1..Len(m.entities)}

\* The orders list(set(...)) can produce: a set has no order.
Orderings(S) ==
    {s \in [1..Cardinality(S) -> S] : \A x \in S : \E i \in DOMAIN s : s[i] = x}

\* BidsConfig: the three flags; the four formatters are the default ones.
BidsConfig(merge_participants_tsv, merge_dataset_description, include_sessions) ==
    [merge_participants_tsv |-> merge_participants_tsv,
     merge_dataset_description |-> merge_dataset_description,
     include_sessions |-> include_sessions]

DefaultConfig == BidsConfig(TRUE, TRUE, FALSE)

---------------------------------------------------------------------------
(* Path configuration. *)

subject_formatter(e) == "sub-" \o e.subject_id
task_name_formatter(e) == "task-" \o e.task_name
session_formatter(e) == "ses-" \o e.session_id

\* The parts of the default file name, the suffix last.
NameParts(e, last) ==
    <<"sub-" \o e.subject_id, "task-" \o e.task_name>>
    \o (IF e.run_id # None THEN <<"run-" \o e.run_id>> ELSE <<>>)
    \o <<last>>

\* A file name with the suffix appended as an extension, not joined by "_".
entity_formatter_SuffixAppended(e) ==
    Join(SubSeq(NameParts(e, e.suffix), 1, Len(NameParts(e, e.suffix)) - 1))
    \o e.suffix

\* BidsConfig.default_entity_formatter
entity_formatter(e) == Join(NameParts(e, e.suffix))

\* A directory that has a session level whenever the entity has a session
\* id, whatever the configuration says.
relative_entity_dir_SessionWhenPresent(c, e) ==
    IF e.session_id # None
    THEN subject_formatter(e) \o "/" \o session_formatter(e) \o "/" \o e.datatype
    ELSE subject_formatter(e) \o "/" \o e.datatype

relative_entity_dir(c, e) ==
    subject_formatter(e)
    \o (IF c.include_sessions THEN "/" \o session_formatter(e) ELSE "")
    \o "/" \o e.datatype

relative_entity_path(c, e) ==
    relative_entity_dir(c, e) \o "/" \o entity_formatter(e)

\* What PurePath.with_suffix drops from a name ending in this entity suffix:
\* the text from the last dot on (nothing when there is no dot).  The ids of
\* the model hold no dot, so the last dot of the name is the suffix's.
SuffixStem(suffix) ==
    CASE suffix = ".tsv" -> ""
      [] suffix = ".csv" -> ""
      [] suffix = "beh.tsv" -> "beh"
      [] suffix = "beh.json" -> "beh"
      [] OTHER -> suffix

relative_entity_metadata_path(c, e) ==
    relative_entity_dir(c, e) \o "/"
    \o Join(NameParts(e, SuffixStem(e.suffix))) \o ".json"

DescriptionPath == "dataset_description.json"
ParticipantsPath == "participants.tsv"
RootFiles == {DescriptionPath, ParticipantsPath}

---------------------------------------------------------------------------
(* File contents and the two merges. *)

\* A file's content is a record with one field, named after what it holds.
\* json.dump(data, f, indent=2)
JsonFile(data) == [json |-> data]
IsJson(content) == DOMAIN content = {"json"}
\* shutil.copy2(fp, path): the bytes of the source file
CopyOf(file_path) == [copy |-> file_path]
DataFrame(header, rows) == [header |-> header, rows |-> rows]
\* DataFrame.to_csv(path, sep="\t", index=False)
ToCsv(df) == [tsv |-> df]

\* pandas parses a column whose every cell is a number as numbers, so such
\* a cell is written back without its leading zeros.
IsNumeric(s) == s \in {"007", "7"}
ParseCell(s) == IF s = "007" THEN "7" ELSE s
\* pd.read_csv(path, sep="\t")
ReadCsv(content) ==
    LET df == content.tsv
    IN  IF Len(df.rows) > 0 /\ \A i \in 1..Len(df.rows) : IsNumeric(df.rows[i])
        THEN DataFrame(df.header, [i \in 1..Len(df.rows) |-> ParseCell(df.rows[i])])
        ELSE df

Put(f, path, content) ==
    [p \in (DOMAIN f) \cup {path} |-> IF p = path THEN content ELSE f[p]]

Ok(f) == [err |-> "", fs |-> f]
Raise(kind, f) == [err |-> kind, fs |-> f]

\* A JSON write that replaces the file instead of merging into it.
_merge_json_Replaces(f, path, data) == Ok(Put(f, path, JsonFile(data)))

\* BidsWriter._merge_json
_merge_json(f, path, data) ==
    IF path \in DOMAIN f
    THEN IF IsJson(f[path])
         THEN Ok(Put(f, path, JsonFile(DictUpdate(f[path].json, data))))
         ELSE Raise("JSONDecodeError", f)
    ELSE Ok(Put(f, path, JsonFile(data)))

\* BidsWriter._merge_tsv
_merge_tsv(f, path, df) ==
    IF path \in DOMAIN f
    THEN LET existing == ReadCsv(f[path])
         IN  Put(f, path, ToCsv(DataFrame(existing.header, existing.rows \o df.rows)))
    ELSE Put(f, path, ToCsv(df))

---------------------------------------------------------------------------
(* BidsWriter. *)

\* A test that takes every mapping, also an empty one, as metadata.
Truthy_NotNone(metadata) == metadata # NoneObj

\* `if entity.metadata:`
Truthy(metadata) == metadata # NoneObj /\ DOMAIN metadata[1] # {}

\* A root check that lets NO_MERGE through.
RootCheck_NoMergePasses(s, nonEmpty) ==
    IF nonEmpty /\ s = UNKNOWN_MERGE THEN "MergeStrategyRequired" ELSE ""

\* The root check of write(): "" when the write may proceed.
RootCheck(s, nonEmpty) ==
    IF nonEmpty /\ s = UNKNOWN_MERGE THEN "MergeStrategyRequired"
    ELSE IF nonEmpty /\ s = NO_MERGE THEN "RootNotEmpty"
    ELSE ""

\* An OVERWRITE that leaves alone a destination that is already there.
OverwriteBranch_SkipsExisting(f, c, e, content) ==
    IF relative_entity_path(c, e) \in DOMAIN f
    THEN Ok(f)
    ELSE LET written == Put(f, relative_entity_path(c, e), content)
         IN  IF Truthy(e.metadata)
             THEN _merge_json(written, relative_entity_metadata_path(c, e),
                              e.metadata[1])
             ELSE Ok(written)

\* The OVERWRITE branch of _merge_entity, content being what write_op writes.
OverwriteBranch(f, c, e, content) ==
    LET written == Put(f, relative_entity_path(c, e), content)
    IN  IF Truthy(e.metadata)
        THEN _merge_json(written, relative_entity_metadata_path(c, e),
                         e.metadata[1])
        ELSE Ok(written)

\* A KEEP that overwrites what is there.
KeepBranch_OverwritesExisting(f, c, e, content) ==
    IF relative_entity_path(c, e) \in DOMAIN f
    THEN OverwriteBranch(f, c, e, content)
    ELSE Ok(f)

\* A KEEP that writes the entity whose destination is absent.
KeepBranch_WritesAbsent(f, c, e, content) ==
    IF relative_entity_path(c, e) \in DOMAIN f
    THEN Ok(f)
    ELSE OverwriteBranch(f, c, e, content)

\* The KEEP branch of _merge_entity: a bare return.
KeepBranch(f, c, e, content) == Ok(f)

\* A chain whose unimplemented strategies write the payload and then raise.
_merge_entity_WritesThenRaises(f, s, c, e, content) ==
    IF s = NO_MERGE /\ relative_entity_path(c, e) \in DOMAIN f
    THEN Raise("EntityConflict", f)
    ELSE IF s = OVERWRITE THEN OverwriteBranch(f, c, e, content)
    ELSE IF s = KEEP THEN KeepBranch(f, c, e, content)
    ELSE IF s \in {RENAME_ENTITIES, NEW_SESSION}
    THEN Raise("NotSupported", Put(f, relative_entity_path(c, e), content))
    ELSE Raise("UnknownMergeStrategy", f)

\* BidsWriter._merge_entity: the if/elif chain over the strategy.
_merge_entity(f, s, c, e, content) ==
    IF s = NO_MERGE /\ relative_entity_path(c, e) \in DOMAIN f
    THEN Raise("EntityConflict", f)
    ELSE IF s = OVERWRITE THEN OverwriteBranch(f, c, e, content)
    ELSE IF s = KEEP THEN KeepBranch(f, c, e, content)
    ELSE IF s = RENAME_ENTITIES THEN Raise("NotSupported", f)
    ELSE IF s = NEW_SESSION THEN Raise("NotSupported", f)
    ELSE Raise("UnknownMergeStrategy", f)

\* One iteration of the loop over self._bids.entities.
WriteOneEntity(f, s, c, e) ==
    IF e.file_path # None
    THEN _merge_entity(f, s, c, e, CopyOf(e.file_path))
    ELSE IF e.tabular_data # NoneObj
    THEN _merge_entity(f, s, c, e, ToCsv(e.tabular_data[1]))
    ELSE Raise("UnknownEntityType", f)

\* A description block that merges whatever the configuration says.
DescriptionStep_AlwaysMerges(f, c, m) ==
    _merge_json(f, DescriptionPath, m.dataset_description)

\* The description block of write().
DescriptionStep(f, c, m) ==
    IF DescriptionPath \notin DOMAIN f \/ c.merge_dataset_description
    THEN _merge_json(f, DescriptionPath, m.dataset_description)
    ELSE Ok(f)

\* A participants block that is put off until after the entities.
ParticipantsStep_PutOff(f, c, ids) == f

\* The participants block of write(), ids being list(set(...)) in some order.
ParticipantsStep(f, c, ids) ==
    IF ParticipantsPath \notin DOMAIN f \/ c.merge_participants_tsv
    THEN _merge_tsv(f, ParticipantsPath, DataFrame(<<"participant">>, ids))
    ELSE f

\* write() of a writer with strategy s, Model b and configuration c, up to
\* and including the root check.
WriteStart(b, s, c) ==
    /\ pc = "idle"
    /\ nWrites < MaxWrites
    /\ strategy' = s
    /\ bids' = b
    /\ config' = c
    /\ idx' = 1
    /\ before' = fs
    /\ beforeRoot' = rootExists
    /\ nWrites' = nWrites + 1
    /\ fs' = fs
    /\ prev' = prev
    /\ IF b = NoneObj
       THEN /\ pc' = "failed"
            /\ result' = "NoModel"
            /\ rootExists' = rootExists
            /\ steps' = <<>>
       ELSE /\ rootExists' = TRUE
            /\ steps' = <<"root">>
            /\ result' = RootCheck(s, DOMAIN fs # {})
            /\ pc' = IF result' = "" THEN "description" ELSE "failed"

\* BidsWriter(bids_root, s, b, c).write(), up to and including the root
\* check.
WriteEnter(b, s, c) ==
    /\ WriteStart(b, s, c)
    /\ UNCHANGED <<builderVars, reportVars, blockVars>>

WriteDescription ==
    /\ pc = "description"
    /\ LET r == DescriptionStep(fs, config, bids[1])
       IN  /\ fs' = r.fs
           /\ result' = r.err
           /\ pc' = IF r.err = "" THEN "participants" ELSE "failed"
    /\ steps' = Append(steps, "description")
    /\ UNCHANGED <<rootExists, strategy, bids, config, idx, before,
                   beforeRoot, prev, nWrites>>
    /\ UNCHANGED <<builderVars, reportVars, blockVars>>

WriteParticipants ==
    /\ pc = "participants"
    /\ \E ids \in Orderings(SubjectIdSet(bids[1])) :
           fs' = ParticipantsStep(fs, config, ids)
    /\ pc' = "entities"
    /\ steps' = Append(steps, "participants")
    /\ UNCHANGED <<rootExists, strategy, bids, config, idx, result, before,
                   beforeRoot, prev, nWrites>>
    /\ UNCHANGED <<builderVars, reportVars, blockVars>>

WriteEntity ==
    /\ pc = "entities"
    /\ idx <= Len(bids[1].entities)
    /\ LET r == WriteOneEntity(fs, strategy, config, bids[1].entities[idx])
       IN  /\ fs' = r.fs
           /\ result' = r.err
           /\ pc' = IF r.err = "" THEN "entities" ELSE "failed"
           /\ idx' = IF r.err = "" THEN idx + 1 ELSE idx
    /\ steps' = Append(steps, "entity")
    /\ UNCHANGED <<rootExists, strategy, bids, config, before, beforeRoot,
                   prev, nWrites>>
    /\ UNCHANGED <<builderVars, reportVars, blockVars>>

WriteReturn ==
    /\ pc = "entities"
    /\ idx > Len(bids[1].entities)
    /\ pc' = "done"
    /\ result' = "True"
    /\ steps' = Append(steps, "return")
    /\ UNCHANGED <<rootExists, fs, strategy, bids, config, idx, before,
                   beforeRoot, prev, nWrites>>
    /\ UNCHANGED <<builderVars, reportVars, blockVars>>

\* The call is over and the writer is dropped; remember says whether the
\* history keeps the call for the next one to be compared with.
WriterDropped(remember) ==
    /\ pc \in {"done", "failed"}
    /\ pc' = "idle"
    /\ prev' = IF remember
               THEN Some([strategy |-> strategy, bids |-> bids,
                          config |-> config, result |-> result,
                          before |-> before, after |-> fs])
               ELSE NoneObj
    /\ strategy' = UNKNOWN_MERGE
    /\ bids' = NoneObj
    /\ config' = DefaultConfig
    /\ idx' = 1
    /\ result' = ""
    /\ before' = EmptyMap
    /\ beforeRoot' = FALSE
    /\ steps' = <<>>
    /\ UNCHANGED <<rootExists, fs, nWrites>>

Finish(remember) ==
    /\ WriterDropped(remember)
    /\ UNCHANGED <<builderVars, reportVars, blockVars>>

---------------------------------------------------------------------------
(* Inputs. *)

Table1 == DataFrame(<<"x", "y">>, <<"1\t2", "3\t4">>)
Description1 == [Name |-> "study", BIDSVersion |-> "1.8.0"]

Metadatas ==
    {NoneObj, Some(EmptyMap), Some([flag |-> "1"]), Some([flag |-> "2", item_id |-> "1"])}

TabularEntity(meta) ==
    BidsEntity("S01", "beh", "draw", ".tsv", None, meta, None, Some(Table1), None)
FileEntity(meta) ==
    BidsEntity("S01", "beh", "draw", ".tsv", None, meta, "in.tsv", NoneObj, None)
\* What the dataclass also accepts: no payload, and both payloads.
BareEntity ==
    BidsEntity("S01", "beh", "draw", ".tsv", None, NoneObj, None, NoneObj, None)
DoubleEntity ==
    BidsEntity("S01", "beh", "draw", ".tsv", None, NoneObj, "in.tsv", Some(Table1), None)

Entities ==
    {TabularEntity(m) : m \in Metadatas} \cup {FileEntity(m) : m \in Metadatas}
    \cup {BareEntity, DoubleEntity}

SeqsUpTo(S, n) == UNION {[1..k -> S] : k \in 0..n}

\* The entities of the models written in sequence: tabular ones without
\* metadata, with empty and with non-empty metadata, a file with metadata,
\* and one without a payload.
WriterEntities ==
    {TabularEntity(NoneObj), TabularEntity(Some(EmptyMap)),
     TabularEntity(Some([flag |-> "2", item_id |-> "1"])),
     FileEntity(Some([flag |-> "1"])), BareEntity}

Models ==
    {Some(BidsModel(es, Description1)) : es \in SeqsUpTo(WriterEntities, MaxEntities)}

ForeignFile == [other |-> "readme"]
\* A root that an earlier conversion left: the entity's file and its sidecar.
EarlierRoot ==
    Put(Put(EmptyMap, relative_entity_path(DefaultConfig, BareEntity),
            CopyOf("old.tsv")),
        relative_entity_metadata_path(DefaultConfig, BareEntity),
        JsonFile([session |-> "0"]))
InitialRoots == {EmptyMap, [p \in {"README"} |-> ForeignFile], EarlierRoot}

---------------------------------------------------------------------------
(* BidsBuilder.  lists and dicts are the list and dict objects of the      *)
(* process; a builder and a model hold the ids of theirs.  Object 1 of     *)
(* each is the default argument of BidsBuilder.__init__, created once when *)
(* the function is defined.                                                *)

DefaultList == 1
DefaultDict == 1
DefaultEntities == <<>>
DefaultDescription == EmptyMap

\* BidsBuilder.__init__(entities, dataset_description): the references it
\* keeps, given the objects passed (the defaults when none is passed).
BuilderInit(entities, dataset_description) ==
    [entities |-> entities, dataset_description |-> dataset_description,
     added |-> <<>>, failed |-> FALSE]

\* BidsBuilder(...): the default object for an argument left out, a fresh
\* empty one for an argument passed as [] or {}.
NewBuilder(freshList, freshDict) ==
    /\ pc = "idle"
    /\ Len(builders) < MaxBuilders
    /\ lists' = IF freshList THEN Append(lists, <<>>) ELSE lists
    /\ dicts' = IF freshDict THEN Append(dicts, EmptyMap) ELSE dicts
    /\ builders' = Append(builders,
           BuilderInit(IF freshList THEN Len(lists) + 1 ELSE DefaultList,
                       IF freshDict THEN Len(dicts) + 1 ELSE DefaultDict))
    /\ lastError' = ""
    /\ UNCHANGED <<models, made, described, props>>
    /\ UNCHANGED <<writerVars, reportVars, blockVars>>

\* The resource kinds add() tells apart with isinstance.
ResourceKinds == {"Path", "DataFrame", "str"}

\* BidsBuilder.add: the entity it appends, NoneObj when it raises.
AddEntity(subject_id, datatype, task_name, suffix, kind, run_id, session_id, metadata) ==
    IF kind = "Path"
    THEN Some(BidsEntity(subject_id, datatype, task_name, suffix, session_id,
                         metadata, "in.tsv", NoneObj, run_id))
    ELSE IF kind = "DataFrame"
    THEN Some(BidsEntity(subject_id, datatype, task_name, suffix, session_id,
                         metadata, None, Some(Table1), run_id))
    ELSE NoneObj

TotalAdded == LET RECURSIVE Sum(_)
                  Sum(i) == IF i = 0 THEN 0 ELSE Len(lists[i]) + Sum(i - 1)
              IN  Sum(Len(lists))

\* An add that appends an entity without payload before it raises.
AddAppend_AppendsThenRaises(old, e) ==
    Append(old, IF e = NoneObj THEN BareEntity ELSE e[1])

\* BidsBuilder.add: the list after the call, e being what AddEntity gives.
AddAppend(old, e) == IF e = NoneObj THEN old ELSE Append(old, e[1])

\* builders[b].add(subject_id, "beh", "draw", ".tsv", resource of the kind).
\* added and failed are history: the entities this builder's successful
\* calls appended, and whether one of its calls has raised.
Add(b, subject_id, kind, session_id, metadata) ==
    /\ pc = "idle"
    /\ TotalAdded < MaxAdds
    /\ b \in 1..Len(builders)
    /\ LET e == AddEntity(subject_id, "beh", "draw", ".tsv", kind, None,
                          session_id, metadata)
           l == builders[b].entities
       IN  /\ lastError' = IF e = NoneObj THEN "UnsupportedResourceType" ELSE ""
           /\ lists' = [lists EXCEPT ![l] = AddAppend(@, e)]
           /\ builders' = IF e = NoneObj
                           THEN [builders EXCEPT ![b].failed = TRUE]
                           ELSE [builders EXCEPT ![b].added = Append(@, e[1])]
    /\ UNCHANGED <<dicts, models, made, described, props>>
    /\ UNCHANGED <<writerVars, reportVars, blockVars>>

\* A description call that replaces the mapping instead of updating it.
DescriptionUpdate_Replaces(d, name, bids_version, fields) ==
    DictUpdate([Name |-> name, BIDSVersion |-> bids_version], fields)

\* BidsBuilder.add_dataset_description: the mapping after the two updates.
DescriptionUpdate(d, name, bids_version, fields) ==
    DictUpdate(DictUpdate(d, [Name |-> name, BIDSVersion |-> bids_version]),
               fields)

AddDatasetDescription(b, name, bids_version, fields) ==
    /\ pc = "idle"
    /\ Len(described) < MaxDescribes
    /\ b \in 1..Len(builders)
    /\ dicts' = [dicts EXCEPT ![builders[b].dataset_description] =
                     DescriptionUpdate(@, name, bids_version, fields)]
    /\ described' = Append(described,
                           [dict |-> builders[b].dataset_description,
                            name |-> name, bids_version |-> bids_version,
                            fields |-> fields])
    /\ lastError' = ""
    /\ UNCHANGED <<lists, builders, models, made, props>>
    /\ UNCHANGED <<writerVars, reportVars, blockVars>>

\* functools.cached_property: nothing is cached on a new instance.
EmptyCache == [has_sessions |-> NoneObj, subject_ids |-> NoneObj]

\* BidsBuilder.build: the model refers to the builder's own two objects.
\* The other fields are history: what the containers held at the build.
BuildModel(b) ==
    [entities |-> builders[b].entities,
     dataset_description |-> builders[b].dataset_description,
     builder |-> b,
     added_at_build |-> builders[b].added,
     failed_at_build |-> builders[b].failed,
     entities_at_build |-> lists[builders[b].entities],
     description_at_build |-> dicts[builders[b].dataset_description],
     cache |-> EmptyCache]

Build ==
    /\ pc = "idle"
    /\ Len(models) < MaxBuilds
    /\ \E b \in 1..Len(builders) : models' = Append(models, BuildModel(b))
    /\ lastError' = ""
    /\ UNCHANGED <<lists, dicts, builders, made, described, props>>
    /\ UNCHANGED <<writerVars, reportVars, blockVars>>

\* The model as its holder reads it now.
ModelEntities(m) == lists[m.entities]
ModelDescription(m) == dicts[m.dataset_description]

\* The model object k as a value: what its two fields refer to now.
ModelValue(k) == BidsModel(ModelEntities(models[k]), ModelDescription(models[k]))

\* models[k].has_sessions: a cached_property, computed on the first read and
\* returned from the instance's cache on every later one.
ReadHasSessions(k) ==
    /\ pc = "idle"
    /\ k \in 1..Len(models)
    /\ LET v == IF models[k].cache.has_sessions # NoneObj
                THEN models[k].cache.has_sessions[1]
                ELSE has_sessions(ModelValue(k))
       IN  /\ models' = [models EXCEPT ![k].cache.has_sessions = Some(v)]
           /\ props' = Some([model |-> k, property |-> "has_sessions",
                             value |-> v,
                             entities_at_read |-> ModelEntities(models[k])])
    /\ lastError' = ""
    /\ UNCHANGED <<lists, dicts, builders, made, described>>
    /\ UNCHANGED <<writerVars, reportVars, blockVars>>

\* models[k].subject_ids: a cached_property over list(set(...)).
ReadSubjectIds(k) ==
    /\ pc = "idle"
    /\ k \in 1..Len(models)
    /\ \E ids \in (IF models[k].cache.subject_ids # NoneObj
                    THEN {models[k].cache.subject_ids[1]}
                    ELSE Orderings(SubjectIdSet(ModelValue(k)))) :
           /\ models' = [models EXCEPT ![k].cache.subject_ids = Some(ids)]
           /\ props' = Some([model |-> k, property |-> "subject_ids",
                             value |-> ids,
                             entities_at_read |-> ModelEntities(models[k])])
    /\ lastError' = ""
    /\ UNCHANGED <<lists, dicts, builders, made, described>>
    /\ UNCHANGED <<writerVars, reportVars, blockVars>>

\* BidsEntity(...) called directly: the dataclass __init__, "" when it returns.
EntityInitError(file_path, tabular_data) == ""

NewEntity ==
    /\ pc = "idle"
    /\ Cardinality(made) < MaxMade
    /\ \E file_path \in {None, "in.tsv"}, tabular_data \in {NoneObj, Some(Table1)} :
        /\ lastError' = EntityInitError(file_path, tabular_data)
        /\ made' = IF lastError' = ""
                   THEN made \cup {BidsEntity("S01", "beh", "draw", ".tsv", None,
                                              NoneObj, file_path, tabular_data, None)}
                   ELSE made
    /\ UNCHANGED <<lists, dicts, builders, models, described, props>>
    /\ UNCHANGED <<writerVars, reportVars, blockVars>>

---------------------------------------------------------------------------
(* Report.create (OakReport and GraphomotorReport have the same create up  *)
(* to the column clean-up of the two tables, which is not modelled: the    *)
(* export files that exist are well-formed).                               *)

_ACTIVITY_USER_JOURNEY_FILENAME == "activity_user_journey.csv"
_REPORT_FILENAME == "report.csv"
_DRAWING_RESPONSES_PATTERN == "drawing-responses-*.zip"
_MEDIA_RESPONSES_PATTERN == "media-responses-*.zip"
_TRAILS_RESPONSES_PATTERN == "trails-responses-*.zip"

\* The names an export directory can hold, and data_directory.glob(pattern).
DrawingArchive == "drawing-responses-1.zip"
MediaArchive == "media-responses-1.zip"
TrailsArchive == "trails-responses-1.zip"
ExpectedNames ==
    {_ACTIVITY_USER_JOURNEY_FILENAME, _REPORT_FILENAME, DrawingArchive,
     MediaArchive, TrailsArchive}
\* A directory may hold other files too.
ExportNames == ExpectedNames \cup {"notes.txt"}
Matches(pattern) ==
    CASE pattern = _DRAWING_RESPONSES_PATTERN -> {DrawingArchive}
      [] pattern = _MEDIA_RESPONSES_PATTERN -> {MediaArchive}
      [] pattern = _TRAILS_RESPONSES_PATTERN -> {TrailsArchive}
      [] OTHER -> {}
Glob(present, pattern) == present \cap Matches(pattern)

\* No create call is running.
ReportIdle ==
    [pc |-> "idle", is_dir |-> FALSE, present |-> {}, error |-> "",
     named |-> "", extracted |-> {}]

\* raise FileNotFoundError(f"... {path} does not exist.")
NotFound(r, path) ==
    [r EXCEPT !.pc = "failed", !.error = "FileNotFoundError", !.named = path]

\* try: path = next(glob(pattern)) / except StopIteration: raise
\* FileNotFoundError(f"File {path} does not exist."), then mkdir and
\* extractall.  When the glob is empty, path was never assigned, so the
\* f-string in the handler raises UnboundLocalError, which names no path.
ArchiveBlock(r, pattern, next) ==
    IF Glob(r.present, pattern) = {}
    THEN [r EXCEPT !.pc = "failed", !.error = "UnboundLocalError"]
    ELSE [r EXCEPT !.pc = next,
                   !.extracted = @ \cup Glob(r.present, pattern)]

\* create(data_directory): the is_dir check.
CreateEnter(is_dir, present) ==
    /\ report.pc = "idle"
    /\ report' =
           LET r == [ReportIdle EXCEPT !.is_dir = is_dir, !.present = present]
           IN  IF ~is_dir THEN NotFound(r, "data_directory")
               ELSE [r EXCEPT !.pc = "activity"]
    /\ UNCHANGED <<writerVars, builderVars, blockVars>>

CreateActivity ==
    /\ report.pc = "activity"
    /\ report' = IF _ACTIVITY_USER_JOURNEY_FILENAME \notin report.present
                 THEN NotFound(report, _ACTIVITY_USER_JOURNEY_FILENAME)
                 ELSE [report EXCEPT !.pc = "report"]
    /\ UNCHANGED <<writerVars, builderVars, blockVars>>

CreateReport ==
    /\ report.pc = "report"
    /\ report' = IF _REPORT_FILENAME \notin report.present
                 THEN NotFound(report, _REPORT_FILENAME)
                 ELSE [report EXCEPT !.pc = "drawing"]
    /\ UNCHANGED <<writerVars, builderVars, blockVars>>

CreateDrawing ==
    /\ report.pc = "drawing"
    /\ report' = ArchiveBlock(report, _DRAWING_RESPONSES_PATTERN, "media")
    /\ UNCHANGED <<writerVars, builderVars, blockVars>>

CreateMedia ==
    /\ report.pc = "media"
    /\ report' = ArchiveBlock(report, _MEDIA_RESPONSES_PATTERN, "trails")
    /\ UNCHANGED <<writerVars, builderVars, blockVars>>

CreateTrails ==
    /\ report.pc = "trails"
    /\ report' = ArchiveBlock(report, _TRAILS_RESPONSES_PATTERN, "return")
    /\ UNCHANGED <<writerVars, builderVars, blockVars>>

\* return cls(...)
CreateReturn ==
    /\ report.pc = "return"
    /\ report' = [report EXCEPT !.pc = "done"]
    /\ UNCHANGED <<writerVars, builderVars, blockVars>>

\* The call is over.
CreateFinish ==
    /\ report.pc \in {"done", "failed"}
    /\ report' = ReportIdle
    /\ UNCHANGED <<writerVars, builderVars, blockVars>>

\* No `with` block is open.
BlockIdle ==
    [state |-> "none", strategy |-> UNKNOWN_MERGE, bids |-> NoneObj,
     builder |-> 0, raised |-> FALSE, outcome |-> ""]

Init ==
    /\ rootExists \in BOOLEAN
    /\ fs \in (IF rootExists THEN InitialRoots ELSE {EmptyMap})
    /\ pc = "idle"
    /\ strategy = UNKNOWN_MERGE
    /\ bids = NoneObj
    /\ config = DefaultConfig
    /\ idx = 1
    /\ result = ""
    /\ before = EmptyMap
    /\ beforeRoot = FALSE
    /\ steps = <<>>
    /\ prev = NoneObj
    /\ nWrites = 0
    /\ lists = <<DefaultEntities>>
    /\ dicts = <<DefaultDescription>>
    /\ builders = <<>>
    /\ models = <<>>
    /\ made = {}
    /\ lastError = ""
    /\ described = <<>>
    /\ props = NoneObj
    /\ report = ReportIdle
    /\ block = BlockIdle

Next ==
    \/ \E b \in Models \cup {NoneObj}, s \in MergeStrategy :
           WriteEnter(b, s, DefaultConfig)
    \/ WriteDescription
    \/ WriteParticipants
    \/ WriteEntity
    \/ WriteReturn
    \/ Finish(FALSE)

Spec == Init /\ [][Next]_vars

\* Writes of models of at most one entity, each call remembered for the next
\* one to be compared with.
OneEntityModels ==
    {Some(BidsModel(es, Description1)) : es \in SeqsUpTo(Entities, 1)}

NextTwice ==
    \/ \E b \in OneEntityModels, s \in {NO_MERGE, OVERWRITE, KEEP} :
           WriteEnter(b, s, DefaultConfig)
    \/ WriteDescription
    \/ WriteParticipants
    \/ WriteEntity
    \/ WriteReturn
    \/ Finish(TRUE)

SpecTwice == Init /\ [][NextTwice]_vars

\* Writes of models whose entities differ in their subject ids, each call
\* remembered for the next one to be compared with.
MaxSubjectEntities == 3
SubjectEntity(subject_id) ==
    BidsEntity(subject_id, "beh", "draw", ".tsv", None, NoneObj, None, Some(Table1), None)
SubjectModels ==
    {Some(BidsModel([i \in DOMAIN ids |-> SubjectEntity(ids[i])], Description1)) :
        ids \in SeqsUpTo({"A", "B"}, MaxSubjectEntities)}

NextSubjects ==
    \/ \E b \in SubjectModels, s \in {OVERWRITE, KEEP} :
           WriteEnter(b, s, DefaultConfig)
    \/ WriteDescription
    \/ WriteParticipants
    \/ WriteEntity
    \/ WriteReturn
    \/ Finish(TRUE)

SpecSubjects == Init /\ [][NextSubjects]_vars

\* Writes under each setting of the two merge flags, of models that differ in
\* their description and in having a subject.
Description2 == [Name |-> "pilot", BIDSVersion |-> "1.8.0", Authors |-> "a"]
Configs == {BidsConfig(p, d, FALSE) : p \in BOOLEAN, d \in BOOLEAN}
ConfigModels ==
    {Some(BidsModel(es, d)) : es \in {<<>>, <<SubjectEntity("A")>>},
                              d \in {Description1, Description2}}

NextConfig ==
    \/ \E b \in ConfigModels, c \in Configs : WriteEnter(b, OVERWRITE, c)
    \/ WriteDescription
    \/ WriteParticipants
    \/ WriteEntity
    \/ WriteReturn
    \/ Finish(FALSE)

SpecConfig == Init /\ [][NextConfig]_vars

\* The builder used before any root exists.
InitBuilder == Init /\ ~rootExists

\* The builder side: builders, add calls, descriptions, builds, and entities
\* constructed directly.
NextBuilder ==
    \/ NewBuilder(FALSE, FALSE)
    \/ \E b \in 1..MaxBuilders, subject_id \in {"S01", "S02"},
          kind \in {"DataFrame", "str"} :
           Add(b, subject_id, kind, None, NoneObj)
    \/ \E b \in 1..MaxBuilders, fields \in {EmptyMap, [Authors |-> "a"]} :
           AddDatasetDescription(b, "study", "1.8.0", fields)
    \/ Build
    \/ NewEntity

SpecBuilder == InitBuilder /\ [][NextBuilder]_vars

\* Description calls that differ in name, version and fields, one of them
\* giving Name among the fields too.
FieldSets == {EmptyMap, [Authors |-> "a"], [Authors |-> "b", Name |-> "other"]}

NextDescription ==
    \/ NewBuilder(FALSE, FALSE)
    \/ \E b \in 1..MaxBuilders, name \in {"study", "pilot"},
          bids_version \in {"1.8.0", "1.9.0"}, fields \in FieldSets :
           AddDatasetDescription(b, name, bids_version, fields)
    \/ Build

SpecDescription == InitBuilder /\ [][NextDescription]_vars

\* add calls, supported and not, among description calls and builds.
NextAdd ==
    \/ NewBuilder(FALSE, FALSE)
    \/ \E b \in 1..MaxBuilders, kind \in {"DataFrame", "str"} :
           Add(b, "S01", kind, None, NoneObj)
    \/ \E b \in 1..MaxBuilders :
           AddDatasetDescription(b, "study", "1.8.0", EmptyMap)
    \/ Build

SpecAdd == InitBuilder /\ [][NextAdd]_vars

\* Reads of a built Model's two properties among add calls with and without
\* a session id.
NextProps ==
    \/ NewBuilder(FALSE, FALSE)
    \/ \E b \in 1..MaxBuilders, subject_id \in {"A", "B"},
          session_id \in {None, "", "1"} :
           Add(b, subject_id, "DataFrame", session_id, NoneObj)
    \/ Build
    \/ \E k \in 1..MaxBuilds : ReadHasSessions(k)
    \/ \E k \in 1..MaxBuilds : ReadSubjectIds(k)

SpecProps == InitBuilder /\ [][NextProps]_vars

\* Report creation from export directories holding any of the five inputs.
NextReport ==
    \/ \E present \in SUBSET ExportNames : CreateEnter(TRUE, present)
    \/ CreateEnter(FALSE, {})
    \/ CreateActivity
    \/ CreateReport
    \/ CreateDrawing
    \/ CreateMedia
    \/ CreateTrails
    \/ CreateReturn
    \/ CreateFinish

SpecReport == InitBuilder /\ [][NextReport]_vars

---------------------------------------------------------------------------
(* Properties. *)

Finished == pc \in {"done", "failed"}
InWrite == pc # "idle" /\ bids # NoneObj
WrittenEntities == bids[1].entities
HasOnePayload(e) == is_file_resource(e) # is_tabular_data(e)
WellFormed(es) == \A i \in 1..Len(es) : HasOnePayload(es[i])
PayloadOf(e) ==
    IF e.file_path # None THEN CopyOf(e.file_path) ELSE ToCsv(e.tabular_data[1])
Dest(e) == relative_entity_path(config, e)
Sidecar(e) == relative_entity_metadata_path(config, e)
MetadataOf(e) == IF e.metadata = NoneObj THEN EmptyMap ELSE e.metadata[1]

\* C1: a NO_MERGE write of a Model with at least one (well-formed) entity
\* into an empty or absent root succeeds and leaves every entity's payload at
\* <subject-label>/<datatype>/<filename>; a NO_MERGE write into a non-empty
\* root fails.
C1_NoMergeWrite ==
    (Finished /\ bids # NoneObj /\ strategy = NO_MERGE) =>
        IF DOMAIN before = {}
        THEN (Len(WrittenEntities) >= 1 /\ WellFormed(WrittenEntities)) =>
                 /\ result = "True"
                 /\ \A i \in 1..Len(WrittenEntities) :
                        Dest(WrittenEntities[i]) \in DOMAIN fs
        ELSE result # "True"

\* C2: the Model build() returns holds exactly the entities of the add calls
\* made on that Builder, in call order, whatever other Builders did before.
C2_BuildYieldsAddedEntities ==
    \A k \in 1..Len(models) :
        models[k].entities_at_build = models[k].added_at_build

\* C3: every Entity that has been constructed has exactly one of the two
\* payloads (constructing one with both or neither fails).
C3_ExactlyOnePayload ==
    \A e \in made : is_file_resource(e) # is_tabular_data(e)

\* C4: a Model keeps the entity sequence and the description it had when
\* build() returned it, whatever is called on the Builder afterwards.
C4_ModelIsSnapshot ==
    \A k \in 1..Len(models) :
        /\ ModelEntities(models[k]) = models[k].entities_at_build
        /\ ModelDescription(models[k]) = models[k].description_at_build

\* C5: a write under RENAME_ENTITIES or NEW_SESSION ends in NotSupported, for
\* every Model (the one without entities included) and every root.
C5_UnimplementedAlwaysFail ==
    (Finished /\ bids # NoneObj /\ WellFormed(WrittenEntities)
        /\ strategy \in {RENAME_ENTITIES, NEW_SESSION})
    => (pc = "failed" /\ result = "NotSupported")

\* C6: on a root that is non-empty when write() starts, UNKNOWN_MERGE fails
\* with MergeStrategyRequired and NO_MERGE with RootNotEmpty, both with the
\* files under the root untouched and no later block run; every other
\* strategy goes on to the description block.
C6_RootCheck ==
    (InWrite /\ DOMAIN before # {}) =>
        CASE strategy = UNKNOWN_MERGE ->
                 /\ pc = "failed" /\ result = "MergeStrategyRequired"
                 /\ fs = before /\ steps = <<"root">>
          [] strategy = NO_MERGE ->
                 /\ pc = "failed" /\ result = "RootNotEmpty"
                 /\ fs = before /\ steps = <<"root">>
          [] OTHER ->
                 \/ pc = "description" /\ steps = <<"root">> /\ fs = before
                 \/ Len(steps) >= 2 /\ steps[2] = "description"

C6_Witness ==
    /\ InWrite /\ strategy = NO_MERGE /\ pc = "failed"
    /\ DescriptionPath \in DOMAIN before
    /\ Len(WrittenEntities) >= 1

\* C7: during and after a KEEP write, every entity destination that existed
\* when the write started holds the bytes it held then, and that entity's
\* sidecar is as it was: unchanged if it existed, absent if it did not.
C7_KeepPreservesExisting ==
    (InWrite /\ strategy = KEEP) =>
        \A i \in 1..Len(WrittenEntities) :
            LET p == Dest(WrittenEntities[i])
                s == Sidecar(WrittenEntities[i])
            IN  p \in DOMAIN before =>
                    /\ p \in DOMAIN fs /\ fs[p] = before[p]
                    /\ (s \in DOMAIN fs) = (s \in DOMAIN before)
                    /\ s \in DOMAIN before => fs[s] = before[s]

C7_Witness ==
    /\ InWrite /\ strategy = KEEP /\ pc = "done"
    /\ \E i \in 1..Len(WrittenEntities) :
        LET e == WrittenEntities[i]
        IN  /\ HasOnePayload(e)
            /\ Dest(e) \in DOMAIN before
            /\ before[Dest(e)] # PayloadOf(e)
            /\ Truthy(e.metadata)
            /\ Sidecar(e) \in DOMAIN before
            /\ before[Sidecar(e)] # JsonFile(DictUpdate(before[Sidecar(e)].json,
                                                         e.metadata[1]))

\* C8: during and after a KEEP write the files under the root other than
\* dataset_description.json and participants.tsv are exactly the files that
\* were there when the write started, with the same content: an entity whose
\* destination is absent is not written.
C8_KeepWritesNoEntity ==
    (InWrite /\ strategy = KEEP) =>
        \A p \in ((DOMAIN fs) \cup (DOMAIN before)) \ RootFiles :
            p \in DOMAIN fs /\ p \in DOMAIN before /\ fs[p] = before[p]

C8_Witness ==
    /\ InWrite /\ strategy = KEEP /\ pc = "done"
    /\ \E i \in 1..Len(WrittenEntities) :
        /\ HasOnePayload(WrittenEntities[i])
        /\ Dest(WrittenEntities[i]) \notin DOMAIN before
        /\ Dest(WrittenEntities[i]) \notin DOMAIN fs

\* Two successive successful OVERWRITE writes, each of one entity, to the
\* same destination.
TwoOverwrites ==
    /\ pc = "done" /\ bids # NoneObj /\ strategy = OVERWRITE
    /\ prev # NoneObj
    /\ prev[1].strategy = OVERWRITE /\ prev[1].result = "True"
    /\ prev[1].after = before
    /\ Len(WrittenEntities) = 1 /\ Len(prev[1].bids[1].entities) = 1
    /\ Dest(prev[1].bids[1].entities[1]) = Dest(WrittenEntities[1])
FirstMetadata == MetadataOf(prev[1].bids[1].entities[1])
SecondMetadata == MetadataOf(WrittenEntities[1])
TheSidecar == Sidecar(WrittenEntities[1])
SidecarBeforeFirst ==
    IF TheSidecar \in DOMAIN prev[1].before
    THEN prev[1].before[TheSidecar].json
    ELSE EmptyMap

\* C9 as stated: after the two writes the sidecar exists and is M1 updated
\* with M2: the keys of both, M2's value where M2 has the key, else M1's.
C9_SidecarIsUnionOfBoth ==
    TwoOverwrites =>
        /\ TheSidecar \in DOMAIN fs
        /\ fs[TheSidecar] = JsonFile(DictUpdate(FirstMetadata, SecondMetadata))

\* C9 as amended: after the two writes the sidecar is what it was before the
\* first write (nothing if it was absent) updated with M1 and then with M2;
\* it exists exactly when it existed before or M1 or M2 is non-empty.
C9_SidecarIsMergeOfAll ==
    TwoOverwrites =>
        IF TheSidecar \in DOMAIN prev[1].before
           \/ DOMAIN FirstMetadata # {} \/ DOMAIN SecondMetadata # {}
        THEN /\ TheSidecar \in DOMAIN fs
             /\ fs[TheSidecar] =
                    JsonFile(DictUpdate(DictUpdate(SidecarBeforeFirst,
                                                   FirstMetadata),
                                        SecondMetadata))
        ELSE TheSidecar \notin DOMAIN fs

C9_Witness ==
    /\ TwoOverwrites
    /\ TheSidecar \notin DOMAIN prev[1].before
    /\ FirstMetadata = [flag |-> "2", item_id |-> "1"]
    /\ SecondMetadata = [flag |-> "1"]
    /\ fs[TheSidecar] = JsonFile([flag |-> "1", item_id |-> "1"])

\* The scenario of C10: one tabular entity (S01, beh, draw, ".tsv", no run,
\* no session) written with OVERWRITE and the default configuration into an
\* empty root.
EndToEndScenario ==
    /\ Finished /\ bids # NoneObj /\ strategy = OVERWRITE
    /\ config = DefaultConfig
    /\ DOMAIN before = {}
    /\ Len(WrittenEntities) = 1
    /\ \E m \in Metadatas : WrittenEntities[1] = TabularEntity(m)

\* C10 as stated: the table is at sub-S01/beh/sub-S01_task-draw.tsv and both
\* root files exist.
C10_TableAtStatedPath ==
    EndToEndScenario =>
        /\ result = "True"
        /\ "sub-S01/beh/sub-S01_task-draw.tsv" \in DOMAIN fs
        /\ RootFiles \subseteq DOMAIN fs

\* C10 as amended: the write succeeds, the table is at
\* sub-S01/beh/sub-S01_task-draw_.tsv (the suffix joined by "_" like every
\* other part of the name), nothing is at sub-S01/beh/sub-S01_task-draw.tsv,
\* and both root files exist.
C10_TableAtJoinedPath ==
    EndToEndScenario =>
        /\ result = "True"
        /\ "sub-S01/beh/sub-S01_task-draw_.tsv" \in DOMAIN fs
        /\ fs["sub-S01/beh/sub-S01_task-draw_.tsv"] = ToCsv(Table1)
        /\ "sub-S01/beh/sub-S01_task-draw.tsv" \notin DOMAIN fs
        /\ RootFiles \subseteq DOMAIN fs

C10_Witness ==
    /\ EndToEndScenario /\ pc = "done"
    /\ fs["sub-S01/beh/sub-S01_task-draw_.tsv"] = ToCsv(Table1)

\* The subject ids of the entities being written, in Model order.
WrittenSubjects == [i \in DOMAIN WrittenEntities |-> WrittenEntities[i].subject_id]
\* The participants block of the current write has run.
ParticipantsWritten == InWrite /\ pc \in {"entities", "done"}
\* The root held no participants.tsv, or the one the previous, successful
\* write of the same Model left.
FreshOrSameModelBefore ==
    \/ ParticipantsPath \notin DOMAIN before
    \/ /\ prev # NoneObj
       /\ prev[1].bids = bids /\ prev[1].result = "True" /\ prev[1].after = before
ParticipantRows == fs[ParticipantsPath].tsv.rows
Count(x, rows) == Cardinality({i \in DOMAIN rows : rows[i] = x})

\* C11: after the participants block of a write of a Model with subject ids
\* A, B, A, participants.tsv has exactly one row A, one row B and no other
\* row, on an empty root and on a root holding the participants.tsv of an
\* earlier write of the same Model.
C11_ParticipantsOncePerSubject ==
    (ParticipantsWritten /\ WrittenSubjects = <<"A", "B", "A">>
        /\ FreshOrSameModelBefore) =>
        /\ ParticipantsPath \in DOMAIN fs
        /\ Len(ParticipantRows) = 2
        /\ Count("A", ParticipantRows) = 1
        /\ Count("B", ParticipantRows) = 1

\* C12: a NO_MERGE write (into an empty or absent root) of two entities with
\* the same destination fails with EntityConflict at the second entity, the
\* first one having been written as OVERWRITE writes it: its payload at the
\* destination and, when it has metadata, its sidecar.
C12_NoMergeConflictAtSecond ==
    (Finished /\ bids # NoneObj /\ strategy = NO_MERGE /\ DOMAIN before = {}
        /\ Len(WrittenEntities) = 2 /\ WellFormed(WrittenEntities)
        /\ Dest(WrittenEntities[1]) = Dest(WrittenEntities[2])) =>
        /\ pc = "failed" /\ result = "EntityConflict" /\ idx = 2
        /\ Dest(WrittenEntities[1]) \in DOMAIN fs
        /\ fs[Dest(WrittenEntities[1])] = PayloadOf(WrittenEntities[1])
        /\ Truthy(WrittenEntities[1].metadata) =>
               /\ Sidecar(WrittenEntities[1]) \in DOMAIN fs
               /\ fs[Sidecar(WrittenEntities[1])] =
                      JsonFile(WrittenEntities[1].metadata[1])

\* Every entity successfully added so far, on any builder.
AllAdded == UNION {Range(builders[b].added) : b \in 1..Len(builders)}
AddedCount ==
    LET RECURSIVE Sum(_)
        Sum(b) == IF b = 0 THEN 0 ELSE Len(builders[b].added) + Sum(b - 1)
    IN  Sum(Len(builders))

\* C13: an add call that fails with UnsupportedResourceType changes no
\* entity list and no description, and at all times the lists (hence every
\* Model built, before or after) hold only entities that successful add
\* calls appended, one per successful call.
C13_FailedAddAppendsNothing ==
    /\ [][lastError' = "UnsupportedResourceType" =>
            (lists' = lists /\ dicts' = dicts /\ models' = models)]_vars
    /\ [](/\ TotalAdded = AddedCount
          /\ \A l \in 1..Len(lists) : Range(lists[l]) \subseteq AllAdded
          /\ \A k \in 1..Len(models) : Range(ModelEntities(models[k])) \subseteq AllAdded)

\* A model built by a builder after one of its add calls failed and another
\* succeeded.
C13_Witness ==
    \E k \in 1..Len(models) :
        /\ models[k].failed_at_build
        /\ Len(models[k].added_at_build) >= 1
        /\ Len(ModelEntities(models[k])) >= 1

\* The add_dataset_description calls that reached dict object d, in time order.
CallsOn(d) == SelectSeq(described, LAMBDA c : c.dict = d)
\* The keys a call supplies, and the value it gives for one of them (the one
\* among its fields, if there, since the fields are applied last).
Supplied(c) == {"Name", "BIDSVersion"} \cup DOMAIN c.fields
Given(c, k) ==
    IF k \in DOMAIN c.fields THEN c.fields[k]
    ELSE IF k = "Name" THEN c.name ELSE c.bids_version
LatestSupplying(cs, k) ==
    CHOOSE i \in DOMAIN cs :
        /\ k \in Supplied(cs[i])
        /\ \A j \in DOMAIN cs : k \in Supplied(cs[j]) => j <= i

\* C14: a description has exactly the keys supplied by the calls made on it,
\* each with the value of the latest call that supplied it.
C14_LastWriteWins ==
    \A d \in 1..Len(dicts) :
        LET cs == CallsOn(d)
        IN  /\ DOMAIN dicts[d] = UNION {Supplied(cs[i]) : i \in DOMAIN cs}
            /\ \A k \in DOMAIN dicts[d] :
                   dicts[d][k] = Given(cs[LatestSupplying(cs, k)], k)

\* Two calls on one builder: the first supplies Authors, the second does not
\* and gives another Name; Authors is retained and Name is the second's.
C14_Witness ==
    /\ Len(builders) = 1 /\ Len(described) = 2
    /\ "Authors" \in DOMAIN described[1].fields
    /\ described[2].fields = EmptyMap
    /\ described[1].name # described[2].name
    /\ dicts[builders[1].dataset_description].Authors = described[1].fields.Authors
    /\ dicts[builders[1].dataset_description].Name = described[2].name

\* The entity sequence and the description of builder b as it reads them.
EntitiesOf(b) == lists[builders[b].entities]
DescriptionOf(b) == dicts[builders[b].dataset_description]

\* C15: builders share no state: no call changes the entity sequence of two
\* builders or the description of two builders (each call is made on one),
\* and none changes a Model built from a builder whose own history of add
\* calls it leaves as it was.
C15_BuildersShareNothing ==
    [][/\ \A b1, b2 \in 1..Len(builders) :
              b1 # b2 =>
                  /\ ~ /\ lists'[builders[b1].entities] # EntitiesOf(b1)
                       /\ lists'[builders[b2].entities] # EntitiesOf(b2)
                  /\ ~ /\ dicts'[builders[b1].dataset_description] # DescriptionOf(b1)
                       /\ dicts'[builders[b2].dataset_description] # DescriptionOf(b2)
       /\ \A k \in 1..Len(models) :
              builders'[models[k].builder].added = builders[models[k].builder].added
                  => lists'[models[k].entities] = ModelEntities(models[k])
      ]_vars

\* The blocks of the current write that have run.
DescriptionBlockDone == InWrite /\ \E i \in DOMAIN steps : steps[i] = "description"
ParticipantsBlockDone == InWrite /\ \E i \in DOMAIN steps : steps[i] = "participants"

\* C16: throughout a write, a dataset_description.json that existed when it
\* started is as it was if merge_dataset_description is false, and likewise
\* participants.tsv with merge_participants_tsv; once its block has run, a
\* file that was absent holds the Model's description, or one row per subject
\* id of the Model, whatever the flag.
C16_ConfigGate ==
    InWrite =>
        /\ (DescriptionPath \in DOMAIN before /\ ~config.merge_dataset_description)
               => (DescriptionPath \in DOMAIN fs
                   /\ fs[DescriptionPath] = before[DescriptionPath])
        /\ (ParticipantsPath \in DOMAIN before /\ ~config.merge_participants_tsv)
               => (ParticipantsPath \in DOMAIN fs
                   /\ fs[ParticipantsPath] = before[ParticipantsPath])
        /\ (DescriptionBlockDone /\ pc # "failed" /\ DescriptionPath \notin DOMAIN before)
               => (DescriptionPath \in DOMAIN fs
                   /\ fs[DescriptionPath] = JsonFile(bids[1].dataset_description))
        /\ (ParticipantsBlockDone /\ ParticipantsPath \notin DOMAIN before)
               => (/\ ParticipantsPath \in DOMAIN fs
                   /\ fs[ParticipantsPath].tsv.header = <<"participant">>
                   /\ fs[ParticipantsPath].tsv.rows \in Orderings(SubjectIdSet(bids[1])))

\* A finished write with both flags false on a root holding both files,
\* where merging would have changed both.
C16_Witness ==
    /\ InWrite /\ pc = "done"
    /\ ~config.merge_dataset_description /\ ~config.merge_participants_tsv
    /\ DescriptionPath \in DOMAIN before /\ ParticipantsPath \in DOMAIN before
    /\ DictUpdate(before[DescriptionPath].json, bids[1].dataset_description)
           # before[DescriptionPath].json
    /\ SubjectIdSet(bids[1]) # {}

\* C17: a create call on an existing directory that lacks one of the five
\* inputs fails with a not-found error naming a path that is missing, and a
\* call that succeeds found all five.
C17_MissingInputNamed ==
    /\ (report.pc = "failed" /\ report.is_dir) =>
           /\ report.error = "FileNotFoundError"
           /\ report.named # ""
           /\ Glob(report.present, report.named) = {}
           /\ report.named \notin report.present
    /\ report.pc = "done" => ExpectedNames \subseteq report.present

\* The entity carries a session id.
CarriesSession(e) == e.session_id # None /\ e.session_id # ""

\* C18: what a read of has_sessions returns is true exactly when an entity of
\* the Model (as it is at the read) carries a session id, and what a read of
\* subject_ids returns holds each subject id of the Model's entities once
\* and nothing else.
C18_PropertiesMatchEntities ==
    props # NoneObj =>
        LET es == props[1].entities_at_read
        IN  IF props[1].property = "has_sessions"
            THEN props[1].value = (\E i \in DOMAIN es : CarriesSession(es[i]))
            ELSE props[1].value \in Orderings({es[i].subject_id : i \in DOMAIN es})

---------------------------------------------------------------------------
(* The loop over the entities of one Model: entities that share a          *)
(* destination, one with a destination of its own and no metadata, one     *)
(* without a payload, on roots that are empty, hold an earlier sidecar, or *)
(* hold a sidecar that is not JSON.                                         *)

OtherSubjectEntity ==
    BidsEntity("S02", "beh", "draw", ".tsv", None, NoneObj, "in2.tsv", NoneObj, None)

LoopEntities ==
    {TabularEntity(Some([flag |-> "2", item_id |-> "1"])),
     FileEntity(Some([flag |-> "1"])), OtherSubjectEntity, BareEntity}

LoopModels ==
    {Some(BidsModel(es, Description1)) : es \in SeqsUpTo(LoopEntities, MaxEntities)}

\* A root whose sidecar json.load cannot read.
CorruptRoot ==
    Put(EmptyMap, relative_entity_metadata_path(DefaultConfig, BareEntity),
        ForeignFile)

LoopRoots == {EmptyMap, EarlierRoot, CorruptRoot}

InitLoop ==
    /\ rootExists \in BOOLEAN
    /\ fs \in (IF rootExists THEN LoopRoots ELSE {EmptyMap})
    /\ pc = "idle"
    /\ strategy = UNKNOWN_MERGE
    /\ bids = NoneObj
    /\ config = DefaultConfig
    /\ idx = 1
    /\ result = ""
    /\ before = EmptyMap
    /\ beforeRoot = FALSE
    /\ steps = <<>>
    /\ prev = NoneObj
    /\ nWrites = 0
    /\ lists = <<DefaultEntities>>
    /\ dicts = <<DefaultDescription>>
    /\ builders = <<>>
    /\ models = <<>>
    /\ made = {}
    /\ lastError = ""
    /\ described = <<>>
    /\ props = NoneObj
    /\ report = ReportIdle
    /\ block = BlockIdle

\* A strategy that writes, one that refuses a root in use, and one that is
\* not implemented.
LoopStrategies == {OVERWRITE, NO_MERGE, RENAME_ENTITIES}

NextLoop ==
    \/ \E b \in LoopModels, s \in LoopStrategies :
           WriteEnter(b, s, DefaultConfig)
    \/ WriteDescription
    \/ WriteParticipants
    \/ WriteEntity
    \/ WriteReturn
    \/ Finish(FALSE)

SpecLoop == InitLoop /\ [][NextLoop]_vars

\* The metadata of the entities of es whose sidecar is at path p, merged in
\* the order of es into the dict d.
RECURSIVE MergedMetadata(_, _, _, _)
MergedMetadata(d, c, es, p) ==
    IF es = <<>> THEN d
    ELSE LET e == Head(es)
         IN  MergedMetadata(
                 IF relative_entity_metadata_path(c, e) = p /\ Truthy(e.metadata)
                 THEN DictUpdate(d, e.metadata[1]) ELSE d,
                 c, Tail(es), p)

\* C19: after a finished OVERWRITE write each destination holds the payload
\* of the last entity, in Model order, that maps to it, and each sidecar
\* holds what it held before the write updated with the metadata of the
\* entities that map to it, one after the other in Model order (so a later
\* entity wins on a shared key); a sidecar that no entity gave metadata for
\* is as it was before the write.
C19_LastEntityWins ==
    (pc = "done" /\ strategy = OVERWRITE) =>
        LET es == bids[1].entities
        IN  \A i \in DOMAIN es :
                LET d == relative_entity_path(config, es[i])
                    p == relative_entity_metadata_path(config, es[i])
                    last == CHOOSE j \in DOMAIN es :
                                /\ relative_entity_path(config, es[j]) = d
                                /\ \A k \in DOMAIN es :
                                       relative_entity_path(config, es[k]) = d
                                           => k <= j
                    given == \E j \in DOMAIN es :
                                /\ relative_entity_metadata_path(config, es[j]) = p
                                /\ Truthy(es[j].metadata)
                    held == IF p \in DOMAIN before THEN before[p].json
                            ELSE EmptyMap
                IN  /\ d \in DOMAIN fs
                    /\ fs[d] = PayloadOf(es[last])
                    /\ IF given
                       THEN /\ p \in DOMAIN fs
                            /\ fs[p] = JsonFile(MergedMetadata(held, config, es, p))
                       ELSE IF p \in DOMAIN before
                            THEN p \in DOMAIN fs /\ fs[p] = before[p]
                            ELSE p \notin DOMAIN fs

\* A finished OVERWRITE write of two entities with one destination whose
\* payloads differ and whose metadata disagree on a key.
C19_Witness ==
    /\ pc = "done" /\ strategy = OVERWRITE
    /\ Len(bids[1].entities) = 2
    /\ LET e1 == bids[1].entities[1]
           e2 == bids[1].entities[2]
       IN  /\ relative_entity_path(config, e1) = relative_entity_path(config, e2)
           /\ PayloadOf(e1) # PayloadOf(e2)
           /\ Truthy(e1.metadata) /\ Truthy(e2.metadata)
           /\ e1.metadata[1].flag # e2.metadata[1].flag
           /\ fs[relative_entity_metadata_path(config, e2)].json.flag
                  = e2.metadata[1].flag


\* The write failed in the loop over the entities.
LoopFailed ==
    /\ pc = "failed" /\ bids # NoneObj
    /\ steps # <<>> /\ steps[Len(steps)] = "entity"

\* The root after the entities of es were written one after the other.
RECURSIVE EntitiesWritten(_, _, _, _)
EntitiesWritten(f, s, c, es) ==
    IF es = <<>> THEN f
    ELSE EntitiesWritten(WriteOneEntity(f, s, c, Head(es)).fs, s, c, Tail(es))

\* The roots that the description block, the participants block and the
\* entities before position idx leave, one for each order of the subjects.
RootsBeforeFailure ==
    {EntitiesWritten(
         ParticipantsStep(DescriptionStep(before, config, bids[1]).fs, config, ids),
         strategy, config, SubSeq(bids[1].entities, 1, idx - 1)) :
     ids \in Orderings(SubjectIdSet(bids[1]))}

\* C20 as stated: a write that failed at position idx leaves the root as
\* the two blocks and the entities before idx left it, with nothing of the
\* entity at idx or of a later one, and has not returned True.
C20_NothingWrittenFromK ==
    LoopFailed => (result # "True" /\ fs \in RootsBeforeFailure)

\* C20: a write that failed at position idx has not returned True and
\* leaves the root as the two blocks and the entities before idx left it,
\* with nothing of a later entity and, of the entity at idx, nothing or,
\* under OVERWRITE when the merge of its sidecar failed, its payload at its
\* destination with the sidecar as it was.
C20_FailedWriteKeepsPrefix ==
    LoopFailed =>
        /\ result # "True"
        /\ \/ fs \in RootsBeforeFailure
           \/ /\ strategy = OVERWRITE
              /\ result = "JSONDecodeError"
              /\ \E f \in RootsBeforeFailure :
                     fs = Put(f, Dest(bids[1].entities[idx]),
                              PayloadOf(bids[1].entities[idx]))

\* A write that failed at the second entity after the first one was written
\* with its sidecar.
C20_Witness ==
    /\ LoopFailed /\ idx = 2 /\ before = EmptyMap
    /\ Dest(bids[1].entities[1]) \in DOMAIN fs
    /\ Sidecar(bids[1].entities[1]) \in DOMAIN fs
    /\ DescriptionPath \in DOMAIN fs /\ ParticipantsPath \in DOMAIN fs

---------------------------------------------------------------------------
(* Successive writes with participants merging, of Models whose subject   *)
(* ids are a word and a number with leading zeros.                         *)

TsvModels ==
    {Some(BidsModel([i \in DOMAIN ids |-> SubjectEntity(ids[i])], Description1)) :
        ids \in SeqsUpTo({"A", "007"}, MaxEntities)}

NextTsv ==
    \/ \E b \in TsvModels, s \in {OVERWRITE, KEEP} :
           WriteEnter(b, s, DefaultConfig)
    \/ WriteDescription
    \/ WriteParticipants
    \/ WriteEntity
    \/ WriteReturn
    \/ Finish(TRUE)

SpecTsv == Init /\ [][NextTsv]_vars

\* The rows of participants.tsv in the root f, none when the file is absent.
RowsIn(f) ==
    IF ParticipantsPath \in DOMAIN f THEN f[ParticipantsPath].tsv.rows ELSE <<>>

\* C21: once the participants block of a write with participants merging
\* has run, participants.tsv holds the rows it held before the write,
\* unchanged and in their order, followed by one row for every subject id
\* of the Model; so the second of two successive successful writes of one
\* Model, the first on a root without participants.tsv, leaves two rows for
\* every subject id of the Model.
C21_ParticipantsConcatenated ==
    (ParticipantsWritten /\ config.merge_participants_tsv) =>
        /\ \E ids \in Orderings(SubjectIdSet(bids[1])) :
               RowsIn(fs) = RowsIn(before) \o ids
        /\ (/\ prev # NoneObj
            /\ prev[1].bids = bids /\ prev[1].result = "True"
            /\ prev[1].after = before
            /\ ParticipantsPath \notin DOMAIN prev[1].before)
               => \A s \in SubjectIdSet(bids[1]) : Count(s, RowsIn(fs)) = 2

---------------------------------------------------------------------------
(* Successive writes, under every strategy and with description merging,  *)
(* of Models whose descriptions share keys, disagree on one and have keys  *)
(* of their own.                                                            *)

Description3 == [License |-> "CC0"]
JsonModels ==
    {Some(BidsModel(es, d)) : es \in {<<>>, <<SubjectEntity("A")>>},
                              d \in {Description1, Description2, Description3}}

NextJson ==
    \/ \E b \in JsonModels, s \in MergeStrategy :
           WriteEnter(b, s, DefaultConfig)
    \/ WriteDescription
    \/ WriteParticipants
    \/ WriteEntity
    \/ WriteReturn
    \/ Finish(FALSE)

SpecJson == Init /\ [][NextJson]_vars

\* The keys of dataset_description.json in the root f.
DescriptionKeys(f) ==
    IF DescriptionPath \in DOMAIN f THEN DOMAIN f[DescriptionPath].json ELSE {}

\* C22: with description merging enabled no step of a write removes a key
\* of dataset_description.json, and once the description block of a write
\* has run the file holds that write's value for every key of its
\* dataset_description and the value from before the write for every other
\* key, and no further key.
C22_DescriptionOnlyGrows ==
    (InWrite /\ config.merge_dataset_description) =>
        /\ DescriptionKeys(before) \subseteq DescriptionKeys(fs)
        /\ DescriptionBlockDone =>
               LET d == bids[1].dataset_description
               IN  /\ DescriptionKeys(fs) = DescriptionKeys(before) \cup DOMAIN d
                   /\ \A k \in DOMAIN d : fs[DescriptionPath].json[k] = d[k]
                   /\ \A k \in DescriptionKeys(before) \ DOMAIN d :
                          fs[DescriptionPath].json[k] = before[DescriptionPath].json[k]

\* A write whose description block ran on a dataset_description.json that
\* held a key the write does not give and another value for a key it gives.
C22_Witness ==
    /\ InWrite /\ config.merge_dataset_description /\ DescriptionBlockDone
    /\ pc \in {"done", "failed"}
    /\ LET d == bids[1].dataset_description
       IN  /\ DescriptionKeys(before) \ DOMAIN d # {}
           /\ \E k \in DescriptionKeys(before) \cap DOMAIN d :
                  before[DescriptionPath].json[k] # d[k]

---------------------------------------------------------------------------
(* OVERWRITE writes of entities without metadata, with an absent and with *)
(* an empty mapping, next to one that has metadata and one whose file name *)
(* itself ends in .json.                                                    *)

JsonNamedEntity ==
    BidsEntity("S01", "beh", "draw", "beh.json", None, NoneObj, "in.json", NoneObj, None)

SidecarEntities ==
    {TabularEntity(NoneObj), TabularEntity(Some(EmptyMap)),
     FileEntity(Some([flag |-> "1"])), JsonNamedEntity}

SidecarModels ==
    {Some(BidsModel(es, Description1)) : es \in SeqsUpTo(SidecarEntities, MaxEntities)}

NextSidecar ==
    \/ \E b \in SidecarModels : WriteEnter(b, OVERWRITE, DefaultConfig)
    \/ WriteDescription
    \/ WriteParticipants
    \/ WriteEntity
    \/ WriteReturn
    \/ Finish(FALSE)

SpecSidecar == Init /\ [][NextSidecar]_vars

\* The loop of an OVERWRITE write is at an entity without metadata.
AtEntityWithoutMetadata ==
    /\ pc = "entities" /\ strategy = OVERWRITE
    /\ idx <= Len(bids[1].entities)
    /\ MetadataOf(bids[1].entities[idx]) = EmptyMap

\* The file at path p is after the step as it was before it.
Untouched(p) ==
    IF p \in DOMAIN fs THEN p \in DOMAIN fs' /\ fs'[p] = fs[p]
    ELSE p \notin DOMAIN fs'

\* C23 as stated: the step of an OVERWRITE write for an entity without
\* metadata puts the payload at the destination and leaves the sidecar path
\* of the entity as it was, present and unchanged or absent.
C23_SidecarUntouched ==
    [][AtEntityWithoutMetadata =>
           LET e == bids[1].entities[idx]
           IN  /\ Dest(e) \in DOMAIN fs' /\ fs'[Dest(e)] = PayloadOf(e)
               /\ Untouched(Sidecar(e))]_vars

\* C23: the step of an OVERWRITE write for an entity without metadata puts
\* the payload at the destination and leaves every other path as it was;
\* so the sidecar is unchanged, or stays absent, unless the destination is
\* itself the sidecar path (a file name ending in .json).
C23_OnlyDestinationWritten ==
    [][AtEntityWithoutMetadata =>
           LET e == bids[1].entities[idx]
           IN  /\ Dest(e) \in DOMAIN fs' /\ fs'[Dest(e)] = PayloadOf(e)
               /\ \A p \in (DOMAIN fs \cup DOMAIN fs') \ {Dest(e)} : Untouched(p)
               /\ Dest(e) # Sidecar(e) => Untouched(Sidecar(e))]_vars

\* An entity with an empty mapping was written over another payload next to
\* a sidecar that was there before the write and is as it was.
C23_Witness ==
    /\ InWrite /\ strategy = OVERWRITE /\ pc = "done"
    /\ Len(bids[1].entities) = 1
    /\ LET e == bids[1].entities[1]
       IN  /\ e.metadata = Some(EmptyMap)
           /\ Dest(e) # Sidecar(e)
           /\ Dest(e) \in DOMAIN before /\ before[Dest(e)] # PayloadOf(e)
           /\ fs[Dest(e)] = PayloadOf(e)
           /\ Sidecar(e) \in DOMAIN before
           /\ fs[Sidecar(e)] = before[Sidecar(e)]

---------------------------------------------------------------------------
(* Writes under every strategy, repeated, with the default configuration  *)
(* and with one that merges neither root file.                             *)

NoMergeConfig == BidsConfig(FALSE, FALSE, FALSE)

StrategyModels ==
    {Some(BidsModel([i \in DOMAIN ids |-> SubjectEntity(ids[i])], Description1)) :
        ids \in SeqsUpTo({"A"}, MaxEntities)}

\* The strategies that fail at an entity, and one that writes.
FailingOrWriting == MergeStrategy \ {KEEP}

NextStrategy ==
    \/ \E b \in StrategyModels, s \in FailingOrWriting, c \in {DefaultConfig, NoMergeConfig} :
           WriteEnter(b, s, c)
    \/ WriteDescription
    \/ WriteParticipants
    \/ WriteEntity
    \/ WriteReturn
    \/ Finish(TRUE)

SpecStrategy == Init /\ [][NextStrategy]_vars

\* The errors that _merge_entity raises because of the strategy.
StrategyErrors == {"NotSupported", "UnknownMergeStrategy"}

\* The write failed at an entity because of its strategy.
StrategyFailure == LoopFailed /\ result \in StrategyErrors

\* The write repeats the previous one, which failed at an entity because of
\* its strategy, on the root that one left.
RepeatsStrategyFailure ==
    /\ InWrite /\ prev # NoneObj
    /\ prev[1].result \in StrategyErrors
    /\ prev[1].bids = bids /\ prev[1].strategy = strategy
    /\ prev[1].config = config /\ prev[1].after = before

\* C24 as stated: both blocks run before the first entity, a write that
\* failed at an entity because of its strategy holds both root files and
\* wrote no entity file, and the repetition of such a write has, when it is
\* over, changed the root again.
C24_RepeatChangesRoot ==
    /\ (InWrite /\ Len(steps) >= 4)
           => SubSeq(steps, 1, 3) = <<"root", "description", "participants">>
    /\ StrategyFailure =>
           /\ DescriptionPath \in DOMAIN fs /\ ParticipantsPath \in DOMAIN fs
           /\ \A p \in (DOMAIN fs \cup DOMAIN before) \ RootFiles :
                  p \in DOMAIN fs /\ p \in DOMAIN before /\ fs[p] = before[p]
    /\ (RepeatsStrategyFailure /\ Finished) => fs # before

\* C24: both blocks run before the first entity is examined; a write that
\* failed at an entity because of its strategy failed at the first one,
\* holds both root files (the description with the write's values, the
\* participants with one more row per subject id when the file was absent
\* or is merged) and wrote no entity file.  Its repetition fails in the
\* same way under RENAME_ENTITIES and NEW_SESSION, and changes the root
\* again exactly when participants are merged; under UNKNOWN_MERGE and
\* NO_MERGE the root is no longer empty, so the repetition fails at the root
\* check and changes nothing.
C24_BlocksBeforeEntities ==
    /\ (InWrite /\ Len(steps) >= 4)
           => SubSeq(steps, 1, 3) = <<"root", "description", "participants">>
    /\ StrategyFailure =>
           /\ idx = 1
           /\ DescriptionPath \in DOMAIN fs /\ ParticipantsPath \in DOMAIN fs
           /\ (DescriptionPath \notin DOMAIN before \/ config.merge_dataset_description)
                  => \A k \in DOMAIN bids[1].dataset_description :
                         fs[DescriptionPath].json[k] = bids[1].dataset_description[k]
           /\ (ParticipantsPath \notin DOMAIN before \/ config.merge_participants_tsv)
                  => Len(RowsIn(fs)) = Len(RowsIn(before))
                                         + Cardinality(SubjectIdSet(bids[1]))
           /\ \A p \in (DOMAIN fs \cup DOMAIN before) \ RootFiles :
                  p \in DOMAIN fs /\ p \in DOMAIN before /\ fs[p] = before[p]
    /\ (RepeatsStrategyFailure /\ Finished) =>
           IF strategy \in {RENAME_ENTITIES, NEW_SESSION}
           THEN /\ StrategyFailure
                /\ (fs # before) = config.merge_participants_tsv
           ELSE /\ result \in {"MergeStrategyRequired", "RootNotEmpty"}
                /\ fs = before

\* A RENAME_ENTITIES write that failed at its first entity for the second
\* time in a row and added a participants row again.
C24_Witness ==
    /\ RepeatsStrategyFailure /\ StrategyFailure
    /\ strategy = RENAME_ENTITIES /\ config = DefaultConfig
    /\ Len(RowsIn(fs)) > Len(RowsIn(before))
    /\ Len(RowsIn(before)) > 0

---------------------------------------------------------------------------
(* Writes of entities with and without a session id, with and without     *)
(* session folders in the configuration.                                    *)

SessionEntity(session_id) ==
    BidsEntity("S01", "beh", "draw", ".tsv", session_id, NoneObj, None, Some(Table1), None)

SessionModels ==
    {Some(BidsModel([i \in DOMAIN ss |-> SessionEntity(ss[i])], Description1)) :
        ss \in SeqsUpTo({None, "1", "2"}, MaxEntities)}

SessionConfigs == {BidsConfig(TRUE, TRUE, s) : s \in BOOLEAN}

NextSession ==
    \/ \E b \in SessionModels, c \in SessionConfigs : WriteEnter(b, OVERWRITE, c)
    \/ WriteDescription
    \/ WriteParticipants
    \/ WriteEntity
    \/ WriteReturn
    \/ Finish(FALSE)

SpecSession == Init /\ [][NextSession]_vars

\* The name of the entity's file without a session id in it.
NameWithoutSession(e) ==
    "sub-" \o e.subject_id \o "_task-" \o e.task_name
    \o (IF e.run_id # None THEN "_run-" \o e.run_id ELSE "") \o "_" \o e.suffix

\* The two entities differ in nothing but the session id.
DifferOnlyInSession(e1, e2) ==
    /\ e1.session_id # e2.session_id
    /\ [e1 EXCEPT !.session_id = None] = [e2 EXCEPT !.session_id = None]

\* C25: the destination of every entity of a write is
\* <subject>/<session>/<datatype>/<name> when include_sessions is true and
\* <subject>/<datatype>/<name> when it is false, whether or not the entity
\* has a session id, the name being without the session id; two entities of
\* the write that differ only in the session id have one destination when
\* include_sessions is false, and a finished write left a file there.
C25_SessionDirectoryByFlag ==
    InWrite =>
        LET es == bids[1].entities
        IN  /\ \A i \in DOMAIN es :
                   /\ relative_entity_path(config, es[i]) =
                          IF config.include_sessions
                          THEN "sub-" \o es[i].subject_id \o "/ses-" \o es[i].session_id
                               \o "/" \o es[i].datatype \o "/" \o NameWithoutSession(es[i])
                          ELSE "sub-" \o es[i].subject_id
                               \o "/" \o es[i].datatype \o "/" \o NameWithoutSession(es[i])
                   /\ pc = "done" => relative_entity_path(config, es[i]) \in DOMAIN fs
            /\ \A i, j \in DOMAIN es :
                   (DifferOnlyInSession(es[i], es[j]) /\ ~config.include_sessions)
                       => relative_entity_path(config, es[i])
                              = relative_entity_path(config, es[j])

\* A finished write without session folders of two entities that differ
\* only in the session id, which left one entity file.
C25_Witness ==
    /\ InWrite /\ pc = "done" /\ ~config.include_sessions
    /\ before = EmptyMap
    /\ Len(bids[1].entities) = 2
    /\ DifferOnlyInSession(bids[1].entities[1], bids[1].entities[2])
    /\ bids[1].entities[1].session_id # None
    /\ bids[1].entities[2].session_id # None
    /\ Cardinality(DOMAIN fs \ RootFiles) = 1

---------------------------------------------------------------------------
(* `with BidsWriter(bids_root, s, b) as writer:` -- the block body may     *)
(* ask the writer for its builder and add entities to it, and it ends      *)
(* normally or raises; leaving the block calls __exit__, which returns     *)
(* what write() returns.                                                    *)

\* BidsWriter(...) and __enter__: the writer of the block.
WithEnter(b, s) ==
    /\ pc = "idle" /\ block.state = "none"
    /\ nWrites < MaxWrites
    /\ block' = [state |-> "body", strategy |-> s, bids |-> b,
                 builder |-> 0, raised |-> FALSE, outcome |-> ""]
    /\ UNCHANGED <<writerVars, builderVars, reportVars>>

\* writer.builder(), first call: BidsBuilder() with its default arguments.
BodyBuilder ==
    /\ block.state = "body" /\ block.builder = 0
    /\ Len(builders) < MaxBuilders
    /\ builders' = Append(builders, BuilderInit(DefaultList, DefaultDict))
    /\ block' = [block EXCEPT !.builder = Len(builders) + 1]
    /\ lastError' = ""
    /\ UNCHANGED <<lists, dicts, models, made, described, props>>
    /\ UNCHANGED <<writerVars, reportVars>>

\* writer.builder().add(...) in the body, with a resource add() accepts.
BodyAdd(subject_id, kind) ==
    /\ block.state = "body" /\ block.builder # 0
    /\ Add(block.builder, subject_id, kind, None, NoneObj)

\* What write() takes as its Model: self._bids, else self._builder.build(),
\* else nothing.
BlockModel ==
    IF block.bids # NoneObj THEN block.bids
    ELSE IF block.builder # 0
    THEN Some(BidsModel(lists[builders[block.builder].entities],
                        dicts[builders[block.builder].dataset_description]))
    ELSE NoneObj

\* The body ends, normally or by raising; __exit__ is called and calls
\* write().
Leave(raised) ==
    /\ block.state = "body"
    /\ WriteStart(BlockModel, block.strategy, DefaultConfig)
    /\ block' = [block EXCEPT !.state = "exit", !.raised = raised]
    /\ UNCHANGED <<builderVars, reportVars>>

\* An exit that lets the body's exception through.
ExitOutcome_Propagates(raised, res) ==
    IF res # "True" THEN res
    ELSE IF raised THEN "BodyError" ELSE "completed"

\* How the `with` statement ends, given whether the body raised and what
\* write() returned or raised in __exit__: an exception of __exit__
\* propagates, a true return value suppresses the body's exception.
ExitOutcome(raised, res) ==
    IF res # "True" THEN res ELSE "completed"

\* write() is over: __exit__ returns or raises.
ExitReturn ==
    /\ block.state = "exit" /\ pc \in {"done", "failed"}
    /\ block' = [block EXCEPT !.state = "left",
                              !.outcome = ExitOutcome(block.raised, result)]
    /\ UNCHANGED <<writerVars, builderVars, reportVars>>

\* The statement is over and the writer is dropped.
BlockEnd ==
    /\ block.state = "left"
    /\ WriterDropped(FALSE)
    /\ block' = BlockIdle
    /\ UNCHANGED <<builderVars, reportVars>>

BlockModels ==
    {Some(BidsModel(es, Description1)) :
        es \in SeqsUpTo({TabularEntity(NoneObj), BareEntity}, 1)}

NextBlock ==
    \/ \E b \in BlockModels \cup {NoneObj}, s \in {OVERWRITE, NO_MERGE} :
           WithEnter(b, s)
    \/ BodyBuilder
    \/ \E kind \in {"DataFrame", "Path"} : BodyAdd("S01", kind)
    \/ \E raised \in BOOLEAN : Leave(raised)
    \/ WriteDescription
    \/ WriteParticipants
    \/ WriteEntity
    \/ WriteReturn
    \/ ExitReturn
    \/ BlockEnd

SpecBlock == Init /\ [][NextBlock]_vars

\* C26: no block is left without a call of write(): the step that ends the
\* body enters write().  When the statement is over, write() has run to
\* its end; if it returned True the statement completes without an
\* exception, also when the body raised; otherwise the exception of write()
\* is what the statement raises; and a writer with neither a Model nor a
\* builder raises the missing-model error with the root directory and its
\* files as they were.
C26_ExitWrites ==
    /\ [][(block.state = "body" /\ block'.state # "body")
              => (nWrites' = nWrites + 1 /\ pc' # "idle")]_vars
    /\ [](block.state = "left" =>
              /\ pc \in {"done", "failed"}
              /\ result = "True" => block.outcome = "completed"
              /\ result # "True" => block.outcome = result
              /\ (block.bids = NoneObj /\ block.builder = 0) =>
                     /\ block.outcome = "NoModel"
                     /\ fs = before /\ rootExists = beforeRoot)

\* A block whose body raised after adding an entity to the writer's
\* builder, whose write returned True and which ended without an exception.
C26_Witness ==
    /\ block.state = "left" /\ block.raised
    /\ block.bids = NoneObj /\ block.builder # 0
    /\ result = "True" /\ block.outcome = "completed"
    /\ Len(bids[1].entities) > 0
    /\ Dest(bids[1].entities[1]) \in DOMAIN fs

====
